---------------------------- MODULE Spec2Model ----------------------------
(***************************************************************************)
(* Model of opensrc's fetch command (src/src/commands/fetch.ts) and of the *)
(* AGENTS.md section maintenance (src/unnamed/part_000, lib/agents).       *)
(*                                                                         *)
(* A project directory is the persistent state: the settings file, the    *)
(* auxiliary files (.gitignore, tsconfig.json, AGENTS.md), the package     *)
(* index and the source store.  fetchCommand is run against it up to       *)
(* MaxRuns times; every await of the command is one step.                  *)
(*                                                                         *)
(* Text files are sequences of tokens: a token is a newline, or a piece of *)
(* text without newlines.  Paths are sequences of path segments.           *)
(***************************************************************************)
EXTENDS Naturals, Sequences, FiniteSets, TLC

\* ------------------------------------------------------------- bounds
MaxBatch == 2      \* longest batch of package specs given to one run
MaxRuns == 2       \* runs of fetchCommand against the same project

\* ------------------------------------------------------------- values
None == "none"                      \* undefined / null
NameOrder == <<"a", "b">>
Names == {NameOrder[k] : k \in 1..Len(NameOrder)}
NoDir == <<>>                       \* repoDirectory null
Cwd == <<"proj">>

\* The specs a user may type: name, or name@version (tokenised).
PackageSpecs == {<<"a">>, <<"a", "@", "1">>, <<"a", "@", "2">>, <<"b", "@", "1">>}

\* Batches of at most MaxBatch specs.
Batches == UNION {[1..k -> PackageSpecs] : k \in 0..MaxBatch}

\* ------------------------------------------------------------- AGENTS.md
NL == "\n"
AGENTS_FILE == <<"AGENTS.md">>
SECTION_START == "## Source Code Reference"
SECTION_MARKER == "<!-- opensrc:start -->"
SECTION_END_MARKER == "<!-- opensrc:end -->"
SECTION_INTRO == "Source code for the following packages is available in '.opensrc/' for deeper understanding of implementation details:"
SECTION_USAGE == "Use this source code when you need to understand how a package works internally, not just its types/interface."
NEW_FILE_TITLE == "# AGENTS.md"
NEW_FILE_TEXT == "Instructions for AI coding agents working with this codebase."

\* AGENTS.md is absent, a directory (existsSync is true, reading and writing
\* fail), or a file with a content.
Absent == [kind |-> "absent", content |-> <<>>]
Directory == [kind |-> "dir", content |-> <<>>]
File(content) == [kind |-> "file", content |-> content]

\* lines.join(newline): an empty line contributes no token.
RECURSIVE Join(_)
Join(lines) ==
  IF Len(lines) = 0 THEN <<>>
  ELSE LET first == IF lines[1] = "" THEN <<>> ELSE <<lines[1]>>
       IN IF Len(lines) = 1 THEN first
          ELSE first \o <<NL>> \o Join(Tail(lines))

\* The list line of one package (the source's backticks are written ').
PackageLine(pkg) ==
  "- **" \o pkg.name \o "@" \o pkg.version \o "** - '.opensrc/" \o pkg.name \o "/'"

RECURSIVE PackageLines(_)
PackageLines(packages) ==
  IF Len(packages) = 0 THEN <<>>
  ELSE <<PackageLine(Head(packages))>> \o PackageLines(Tail(packages))

generateSection(packages) ==
  IF Len(packages) = 0 THEN <<>>
  ELSE Join(<<"", SECTION_START, "", SECTION_MARKER, "", SECTION_INTRO, "">>
            \o PackageLines(packages)
            \o <<"", SECTION_USAGE, "", SECTION_END_MARKER, "">>)

\* content.includes(token)
Includes(content, tok) == \E k \in 1..Len(content) : content[k] = tok

\* content.indexOf(token), 1-based; 0 when absent (JavaScript's -1).
IndexOf(content, tok) ==
  IF Includes(content, tok)
  THEN CHOOSE k \in 1..Len(content) :
         content[k] = tok /\ \A j \in 1..(k - 1) : content[j] # tok
  ELSE 0

IsSpace(tok) == tok = NL

RECURSIVE TrimEnd(_)
TrimEnd(content) ==
  IF Len(content) > 0 /\ IsSpace(content[Len(content)])
  THEN TrimEnd(SubSeq(content, 1, Len(content) - 1))
  ELSE content

RECURSIVE TrimStart(_)
TrimStart(content) ==
  IF Len(content) > 0 /\ IsSpace(content[1])
  THEN TrimStart(Tail(content))
  ELSE content

\* newContent.replace: three or more newlines in a row become two.
RECURSIVE CollapseNewlines(_)
CollapseNewlines(content) ==
  IF Len(content) < 3 THEN content
  ELSE IF content[1] = NL /\ content[2] = NL /\ content[3] = NL
       THEN CollapseNewlines(Tail(content))
       ELSE <<content[1]>> \o CollapseNewlines(Tail(content))

hasOpensrcSection(file) ==
  IF file.kind = "absent" THEN FALSE
  ELSE IF file.kind = "dir" THEN FALSE          \* readFile throws, caught
  ELSE Includes(file.content, SECTION_MARKER)

\* Result of a call on AGENTS.md: the file afterwards, the value returned,
\* and whether the call threw instead of returning.
Outcome(file, ret, threw) == [file |-> file, ret |-> ret, threw |-> threw]

removeOpensrcSection(file) ==
  IF file.kind = "absent" THEN Outcome(file, FALSE, FALSE)
  ELSE IF file.kind = "dir" THEN Outcome(file, FALSE, FALSE)   \* caught
  ELSE LET content == file.content
           startIdx == IndexOf(content, SECTION_START)
           endIdx == IndexOf(content, SECTION_END_MARKER)
       IN IF ~Includes(content, SECTION_MARKER) THEN Outcome(file, FALSE, FALSE)
          ELSE IF startIdx = 0 \/ endIdx = 0 THEN Outcome(file, FALSE, FALSE)
          ELSE LET before == TrimEnd(SubSeq(content, 1, startIdx - 1))
                   after == TrimStart(SubSeq(content, endIdx + 1, Len(content)))
                   joined == IF after # <<>> THEN before \o <<NL, NL>> \o after
                             ELSE before
                   newContent ==
                     TrimEnd(TrimStart(CollapseNewlines(joined))) \o <<NL>>
               IN Outcome(File(newContent), TRUE, FALSE)

\* The section replaced nothing: it was added after what is there.
AppendSection(content, section) == content \o section

\* The section spliced over the existing one (lines 85-94).
ReplaceSection(content, section) ==
  LET startIdx == IndexOf(content, SECTION_START)
      endIdx == IndexOf(content, SECTION_END_MARKER)
      before == TrimEnd(SubSeq(content, 1, startIdx - 1))
      after == TrimStart(SubSeq(content, endIdx + 1, Len(content)))
  IN before \o section \o (IF after # <<>> THEN <<NL>> \o after ELSE <<>>)

\* updateAgentsMd without the case of the empty list (lines 69-75).
updateAgentsMdWithoutEmptyCase(packages, file) ==
  LET section == generateSection(packages)
  IN IF file.kind = "dir" THEN Outcome(file, FALSE, TRUE)
     ELSE IF file.kind = "file"
     THEN LET content == file.content
          IN IF /\ Includes(content, SECTION_MARKER)
                /\ IndexOf(content, SECTION_START) # 0
                /\ IndexOf(content, SECTION_END_MARKER) # 0
             THEN Outcome(File(ReplaceSection(content, section)), TRUE, FALSE)
             ELSE LET ended == IF content = <<>> \/ content[Len(content)] # NL
                               THEN content \o <<NL>> ELSE content
                  IN Outcome(File(ended \o section), TRUE, FALSE)
     ELSE Outcome(File(<<NEW_FILE_TITLE, NL, NL, NEW_FILE_TEXT, NL>> \o section),
                  TRUE, FALSE)

updateAgentsMd(packages, file) ==
  LET section == generateSection(packages)
  IN IF Len(packages) = 0
     THEN IF hasOpensrcSection(file) THEN removeOpensrcSection(file)
          ELSE Outcome(file, FALSE, FALSE)
     ELSE IF file.kind = "dir" THEN Outcome(file, FALSE, TRUE)   \* readFile rejects
     ELSE IF file.kind = "file"
     THEN LET content == file.content
          IN IF /\ Includes(content, SECTION_MARKER)
                /\ IndexOf(content, SECTION_START) # 0
                /\ IndexOf(content, SECTION_END_MARKER) # 0
             THEN Outcome(File(ReplaceSection(content, section)), TRUE, FALSE)
             ELSE LET ended == IF content = <<>> \/ content[Len(content)] # NL
                               THEN content \o <<NL>> ELSE content
                  IN Outcome(File(ended \o section), TRUE, FALSE)
     ELSE Outcome(File(<<NEW_FILE_TITLE, NL, NL, NEW_FILE_TEXT, NL>> \o section),
                  TRUE, FALSE)

\* ------------------------------------------------------------- collaborators
\* parsePackageSpec: name, or name@version split on the last @.
parsePackageSpec(spec) ==
  IF Len(spec) >= 3 /\ spec[Len(spec) - 1] = "@"
  THEN [name |-> spec[1], version |-> spec[Len(spec)]]
  ELSE [name |-> spec[1], version |-> None]

\* The registry: the latest version of a package and, for a package that
\* lives in a monorepo, its directory in the repository.
LatestVersion(name) == IF name = "a" THEN "2" ELSE "1"
RegistryDirectory(name) == IF name = "b" THEN <<"packages", "foo">> ELSE NoDir

\* resolvePackage(name, version): the manifest at version, or at latest.
resolvePackage(name, version) ==
  LET v == IF version = None THEN LatestVersion(name) ELSE version
      dir == RegistryDirectory(name)
  IN [name |-> name, version |-> v, repoUrl |-> "https://git/" \o name,
      repoDirectory |-> dir,
      gitTag |-> IF dir = NoDir THEN "v" \o v ELSE name \o "@" \o v]

\* The store: per package, whether its directory exists, whether a readable
\* metadata file is in it, the metadata, and the version whose tree it holds.
NoEntry ==
  [exists |-> FALSE, meta |-> FALSE, version |-> None, repoDirectory |-> NoDir,
   tree |-> None]
BrokenEntry ==
  [exists |-> TRUE, meta |-> FALSE, version |-> None, repoDirectory |-> NoDir,
   tree |-> "partial"]

StoreDir(name) == Cwd \o <<"opensrc", name>>

packageExists(st, name) == st[name].exists

\* readMetadata: null when the file is missing or unreadable.
readMetadata(st, name) ==
  IF st[name].exists /\ st[name].meta
  THEN [present |-> TRUE, name |-> name, version |-> st[name].version,
        repoDirectory |-> st[name].repoDirectory]
  ELSE [present |-> FALSE, name |-> name, version |-> None,
        repoDirectory |-> NoDir]

\* listSources: the packages of the store that have metadata, in directory
\* order.
RECURSIVE ListFrom(_, _)
ListFrom(st, names) ==
  IF Len(names) = 0 THEN <<>>
  ELSE LET n == Head(names)
           rest == ListFrom(st, Tail(names))
       IN IF st[n].exists /\ st[n].meta
          THEN <<[name |-> n, version |-> st[n].version,
                  path |-> StoreDir(n) \o st[n].repoDirectory]>> \o rest
          ELSE rest
listSources(st) == ListFrom(st, NameOrder)

\* fetchSource: how the clone went.  ok: the tag was checked out; fallback:
\* the tag is missing and the default branch was cloned; fail: the clone
\* failed and success:false is returned; throw: it rejected.
FetchOutcomes == {"ok", "fallback", "fail", "throw"}
FetchWarning == "tag not found, used default branch"
FetchError == "clone failed"

fetchSourceResult(resolved, outcome) ==
  IF outcome \in {"ok", "fallback"}
  THEN [package |-> resolved.name, version |-> resolved.version,
        path |-> StoreDir(resolved.name) \o resolved.repoDirectory,
        success |-> TRUE,
        error |-> IF outcome = "fallback" THEN FetchWarning ELSE ""]
  ELSE [package |-> resolved.name, version |-> resolved.version,
        path |-> <<>>, success |-> FALSE, error |-> FetchError]

fetchSourceStore(st, resolved, outcome) ==
  IF outcome \in {"ok", "fallback"}
  THEN [st EXCEPT ![resolved.name] =
          [exists |-> TRUE, meta |-> TRUE, version |-> resolved.version,
           repoDirectory |-> resolved.repoDirectory,
           tree |-> resolved.version]]
  ELSE st

\* ------------------------------------------------------------- state
VARIABLES
  pc,              \* where fetchCommand is: idle, perm, ensure, loop, store,
                   \* resolve, fetch, done (returned), thrown (rejected)
  runs,            \* runs of fetchCommand started so far
  packages,        \* the batch of the current run
  cliOverride,     \* options.allowModifications: allow, deny or unset
  canModifyFiles,  \* the permission the current run resolved to
  results,         \* the FetchResult list of the current run
  i,               \* index in packages of the spec being processed
  cur,             \* name and target version of the package being processed
  resolved,        \* the ResolvedPackage of the package being processed
  settings,        \* stored preference of settings.json: allow, deny or unset
  gitignore,       \* .gitignore has the opensrc/ entry
  tsconfig,        \* tsconfig.json excludes opensrc/
  agentsMd,        \* AGENTS.md
  sourcesIndex,    \* the package index written by updatePackageIndex
  store,           \* the source store
  installed,       \* the version of each package installed in the project
  log,             \* the collaborator calls of the current run, in order:
                   \* <<index of the spec (0 outside the loop), call>>
  atStart,         \* settings and project files when the current run started
  attempts,        \* per spec of the current run that was begun: its target
                   \* version, the last successful fetch of its package
                   \* before it, whether its store directory was there
                   \* without metadata, how it ended, what fetchSource
                   \* returned
  prompts,         \* how often the user was asked, over all runs
  lastFetched,     \* per package, version and path of the last result of a
                   \* fetch that succeeded
  history          \* the calls made on AGENTS.md from outside fetchCommand:
                   \* function, package list, file before and after, value
                   \* returned, whether it threw

vars ==
  <<pc, runs, packages, cliOverride, canModifyFiles, results, i, cur, resolved,
    settings, gitignore, tsconfig, agentsMd, sourcesIndex, store, installed,
    log, atStart, attempts, prompts, lastFetched, history>>

Permissions == {"allow", "deny"}
NoCur == [name |-> None, version |-> None]
NoResolved ==
  [name |-> None, version |-> None, repoUrl |-> None, repoDirectory |-> NoDir,
   gitTag |-> None]
NoFetch == [version |-> None, path |-> <<>>]

\* A user's AGENTS.md without a section of opensrc.
UserFile == File(<<"# Notes", NL, NL, "Run the tests.", NL>>)

\* What is installed in the project: nothing, or a@1 and b@1.
NothingInstalled == [n \in Names |-> None]
InstalledOne == [n \in Names |-> "1"]
EmptyStore == [n \in Names |-> NoEntry]
BrokenStore == [n \in Names |-> IF n = "a" THEN BrokenEntry ELSE NoEntry]

\* The projects fetchCommand is first run in: a fresh one, one with notes
\* for agents and an interrupted fetch of a, one whose AGENTS.md is a
\* directory, and one with an interrupted fetch and nothing installed.
Project(file, st, inst) == [agentsMd |-> file, store |-> st, installed |-> inst]
InitProjects ==
  {Project(Absent, EmptyStore, NothingInstalled),
   Project(UserFile, BrokenStore, InstalledOne),
   Project(Directory, EmptyStore, InstalledOne),
   Project(Absent, BrokenStore, NothingInstalled)}

Init ==
  /\ pc = "idle"
  /\ runs = 0
  /\ packages = <<>>
  /\ cliOverride = "unset"
  /\ canModifyFiles = FALSE
  /\ results = <<>>
  /\ i = 1
  /\ cur = NoCur
  /\ resolved = NoResolved
  /\ settings = "unset"
  /\ gitignore = FALSE
  /\ tsconfig = FALSE
  /\ \E p \in InitProjects :
       /\ agentsMd = p.agentsMd
       /\ store = p.store
       /\ installed = p.installed
  /\ sourcesIndex = <<>>
  /\ log = <<>>
  /\ atStart = [settings |-> settings, gitignore |-> gitignore,
                tsconfig |-> tsconfig, agentsMd |-> agentsMd]
  /\ attempts = <<>>
  /\ prompts = 0
  /\ lastFetched = [n \in Names |-> NoFetch]
  /\ history = <<>>

\* ------------------------------------------------------------- fetch.ts
\* The stored preference consulted before the CLI override.
StoredPreferenceFirst(override, stored, answer) ==
  IF stored # "unset"
  THEN [allowed |-> stored, stored |-> stored, prompted |-> FALSE]
  ELSE IF override # "unset"
  THEN [allowed |-> override, stored |-> override, prompted |-> FALSE]
  ELSE [allowed |-> answer, stored |-> answer, prompted |-> TRUE]

\* The override returned without being saved.
OverrideNotSaved(override, stored, answer) ==
  IF override # "unset"
  THEN [allowed |-> override, stored |-> stored, prompted |-> FALSE]
  ELSE IF stored # "unset"
  THEN [allowed |-> stored, stored |-> stored, prompted |-> FALSE]
  ELSE [allowed |-> answer, stored |-> answer, prompted |-> TRUE]

\* checkFileModificationPermission: the value returned, the preference
\* stored afterwards, and whether the user was asked.
checkFileModificationPermission(override, stored, answer) ==
  IF override # "unset"
  THEN [allowed |-> override, stored |-> override, prompted |-> FALSE]
  ELSE IF stored # "unset"
  THEN [allowed |-> stored, stored |-> stored, prompted |-> FALSE]
  ELSE [allowed |-> answer, stored |-> answer, prompted |-> TRUE]

\* The installed version looked up whatever the spec says.
AlwaysDetects(explicitVersion) == TRUE

\* The target version: the explicit one, else the installed one, else none.
NeedsDetection(explicitVersion) == explicitVersion = None
TargetVersion(explicitVersion, installedVersion) ==
  IF ~NeedsDetection(explicitVersion) THEN explicitVersion
  ELSE IF installedVersion # None THEN installedVersion
  ELSE None

\* The stored name compared with the version.
UpToDateByName(existingMeta, version) ==
  existingMeta.present /\ existingMeta.name = version

\* Any stored version taken for the requested one.
UpToDateAnyVersion(existingMeta, version) == existingMeta.present

\* The versions compared without looking whether metadata was read.
UpToDateUnchecked(existingMeta, version) == existingMeta.version = version

\* existingMeta && existingMeta.version === version
UpToDate(existingMeta, version) ==
  existingMeta.present /\ existingMeta.version = version

\* The store directory reported, the monorepo directory forgotten.
ExistingPathWithoutDirectory(name, existingMeta) == Cwd \o <<"opensrc", name>>

\* The path reported for a package that is already up to date.
ExistingPath(name, existingMeta) ==
  IF existingMeta.repoDirectory # NoDir
  THEN Cwd \o <<"opensrc", name>> \o existingMeta.repoDirectory
  ELSE Cwd \o <<"opensrc", name>>

ExistingResult(name, existingMeta) ==
  [package |-> name, version |-> existingMeta.version,
   path |-> ExistingPath(name, existingMeta), success |-> TRUE, error |-> ""]

\* The result pushed by the catch block.
ErrorResult(name, errorMessage) ==
  [package |-> name, version |-> "", path |-> <<>>, success |-> FALSE,
   error |-> errorMessage]

\* A result that carries an error counted as a failure.
PushedResultStrict(result) ==
  [result EXCEPT !.success = result.success /\ result.error = ""]

\* What the loop does with the result of fetchSource before pushing it.
PushedResult(result) == result

\* results.unshift(r)
PushFront(rs, r) == <<r>> \o rs

\* The push forgotten.
PushDropped(rs, r) == rs

\* results.push(r)
Push(rs, r) == Append(rs, r)

\* The catch block leaving the loop.
AbortBatch(idx, len) == len + 1

\* Where the loop goes on after the catch block: the next spec.
AfterCatch(idx, len) == idx + 1

NoResult ==
  [package |-> None, version |-> None, path |-> <<>>, success |-> FALSE,
   error |-> ""]
Ended(outcome, fetched) ==
  [attempts EXCEPT ![Len(attempts)].outcome = outcome,
                   ![Len(attempts)].fetched = fetched]

\* results.filter(...).length
RECURSIVE Count(_, _)
Count(rs, wanted) ==
  IF Len(rs) = 0 THEN 0
  ELSE (IF Head(rs).success = wanted THEN 1 ELSE 0) + Count(Tail(rs), wanted)
Successful(rs) == Count(rs, TRUE)
Failed(rs) == Count(rs, FALSE)

\* AGENTS.md updated whether or not a package succeeded.
UpdatesAgentsMdAlways(successful, canModify) == canModify

\* The branches after the summary (lines 188 and 194).
UpdatesAgentsMd(successful, canModify) == successful > 0 /\ canModify
UpdatesIndexOnly(successful, canModify) == successful > 0 /\ ~canModify

\* The two ensure calls made without looking at the permission.
EnsuresAlways(canModify) == TRUE

\* Whether the two ensure calls of lines 87-99 are made.
EnsuresProjectFiles(canModify) == canModify

Logged(call) == Append(log, <<i, call>>)
Logged2(call1, call2) == log \o <<<<i, call1>>, <<i, call2>>>>

\* fetchCommand is called with a batch and the CLI override.
StartRun(batch, override) ==
  /\ pc \in {"idle", "done", "thrown"}
  /\ runs < MaxRuns
  /\ runs' = runs + 1
  /\ packages' = batch
  /\ cliOverride' = override
  /\ results' = <<>>
  /\ i' = 1
  /\ cur' = NoCur
  /\ resolved' = NoResolved
  /\ canModifyFiles' = FALSE
  /\ log' = <<>>
  /\ atStart' = [settings |-> settings, gitignore |-> gitignore,
                 tsconfig |-> tsconfig, agentsMd |-> agentsMd]
  /\ attempts' = <<>>
  /\ pc' = "perm"
  /\ UNCHANGED <<settings, gitignore, tsconfig, agentsMd, sourcesIndex, store,
                 installed, prompts, lastFetched>>
  /\ UNCHANGED history

\* Line 85: the permission is decided, and persisted.
CheckPermission(answer) ==
  /\ pc = "perm"
  /\ LET d == checkFileModificationPermission(cliOverride, settings, answer)
     IN /\ canModifyFiles' = (d.allowed = "allow")
        /\ settings' = d.stored
        /\ prompts' = prompts + (IF d.prompted THEN 1 ELSE 0)
        /\ log' = IF d.prompted THEN Append(log, <<0, "confirm">>) ELSE log
  /\ pc' = "ensure"
  /\ UNCHANGED <<runs, packages, cliOverride, results, i, cur, resolved,
                 gitignore, tsconfig, agentsMd, sourcesIndex, store, installed,
                 atStart, attempts, lastFetched>>
  /\ UNCHANGED history

\* Lines 87-99: .gitignore and tsconfig.json are patched when allowed.
EnsureProjectFiles ==
  /\ pc = "ensure"
  /\ IF EnsuresProjectFiles(canModifyFiles)
     THEN /\ gitignore' = TRUE
          /\ tsconfig' = TRUE
          /\ log' = log \o <<<<0, "ensureGitignore">>,
                             <<0, "ensureTsconfigExclude">>>>
     ELSE UNCHANGED <<gitignore, tsconfig, log>>
  /\ pc' = "loop"
  /\ UNCHANGED <<runs, packages, cliOverride, canModifyFiles, results, i, cur,
                 resolved, settings, agentsMd, sourcesIndex, store, installed,
                 atStart, attempts, prompts, lastFetched>>
  /\ UNCHANGED history

\* Lines 101-121: the next spec is parsed and its target version determined.
BeginPackage ==
  /\ pc = "loop"
  /\ i <= Len(packages)
  /\ LET spec == parsePackageSpec(packages[i])
         detects == NeedsDetection(spec.version)
         installedVersion == IF detects THEN installed[spec.name] ELSE None
         target == TargetVersion(spec.version, installedVersion)
     IN /\ cur' = [name |-> spec.name, version |-> target]
        /\ log' = IF detects THEN Logged2("begin", "detectInstalledVersion")
                  ELSE Logged("begin")
        /\ attempts' = Append(attempts,
             [target |-> target, prior |-> lastFetched[spec.name],
              dirOnly |-> /\ packageExists(store, spec.name)
                          /\ ~readMetadata(store, spec.name).present,
              outcome |-> "pending", fetched |-> NoResult])
  /\ pc' = "store"
  /\ UNCHANGED <<runs, packages, cliOverride, canModifyFiles, results, i,
                 resolved, settings, gitignore, tsconfig, agentsMd,
                 sourcesIndex, store, installed, atStart, prompts,
                 lastFetched>>
  /\ UNCHANGED history

\* Lines 123-142: a package stored at the target version is not fetched.
CheckStore ==
  /\ pc = "store"
  /\ LET exists == packageExists(store, cur.name)
         existingMeta == readMetadata(store, cur.name)
     IN IF exists /\ UpToDate(existingMeta, cur.version)
        THEN /\ results' = Push(results, ExistingResult(cur.name, existingMeta))
             /\ log' = log \o <<<<i, "packageExists">>, <<i, "readMetadata">>>>
             /\ attempts' = Ended("uptodate", NoResult)
             /\ i' = i + 1
             /\ cur' = NoCur
             /\ pc' = "loop"
        ELSE /\ log' = IF exists THEN Logged2("packageExists", "readMetadata")
                       ELSE Logged("packageExists")
             /\ pc' = "resolve"
             /\ UNCHANGED <<results, i, cur, attempts>>
  /\ UNCHANGED <<runs, packages, cliOverride, canModifyFiles, resolved,
                 settings, gitignore, tsconfig, agentsMd, sourcesIndex, store,
                 installed, atStart, prompts, lastFetched>>
  /\ UNCHANGED history

\* Line 146: the registry is asked; a rejection is caught at line 168.
Resolve(outcome) ==
  /\ pc = "resolve"
  /\ log' = Logged("resolvePackage")
  /\ IF outcome = "ok"
     THEN /\ resolved' = resolvePackage(cur.name, cur.version)
          /\ pc' = "fetch"
          /\ UNCHANGED <<results, i, cur, attempts>>
     ELSE /\ results' = Push(results, ErrorResult(cur.name, "not in registry"))
          /\ attempts' = Ended("resolve-throw", NoResult)
          /\ i' = AfterCatch(i, Len(packages))
          /\ cur' = NoCur
          /\ pc' = "loop"
          /\ UNCHANGED resolved
  /\ UNCHANGED <<runs, packages, cliOverride, canModifyFiles, settings,
                 gitignore, tsconfig, agentsMd, sourcesIndex, store, installed,
                 atStart, prompts, lastFetched>>
  /\ UNCHANGED history

\* Lines 155-178: the source is fetched and the result pushed.
Fetch(outcome) ==
  /\ pc = "fetch"
  /\ log' = Logged("fetchSource")
  /\ IF outcome = "throw"
     THEN /\ results' = Push(results, ErrorResult(cur.name, "network error"))
          /\ attempts' = Ended("fetch-throw", NoResult)
          /\ i' = AfterCatch(i, Len(packages))
          /\ UNCHANGED <<store, lastFetched>>
     ELSE LET result == fetchSourceResult(resolved, outcome)
          IN /\ results' = Push(results, PushedResult(result))
             /\ attempts' = Ended("fetch-" \o outcome, result)
             /\ i' = i + 1
             /\ store' = fetchSourceStore(store, resolved, outcome)
             /\ lastFetched' =
                  IF result.success
                  THEN [lastFetched EXCEPT ![cur.name] =
                          [version |-> result.version, path |-> result.path]]
                  ELSE lastFetched
  /\ cur' = NoCur
  /\ resolved' = NoResolved
  /\ pc' = "loop"
  /\ UNCHANGED <<runs, packages, cliOverride, canModifyFiles, settings,
                 gitignore, tsconfig, agentsMd, sourcesIndex, installed,
                 atStart, prompts>>
  /\ UNCHANGED history

\* Lines 181-201: the summary, the index and AGENTS.md; then the return.
Finish ==
  /\ pc = "loop"
  /\ i > Len(packages)
  /\ LET successful == Successful(results)
         allSources == listSources(store)
         out == updateAgentsMd(allSources, agentsMd)
     IN IF UpdatesAgentsMd(successful, canModifyFiles)
        THEN /\ agentsMd' = out.file
             /\ log' = log \o <<<<0, "listSources">>, <<0, "updateAgentsMd">>>>
             /\ pc' = IF out.threw THEN "thrown" ELSE "done"
             /\ UNCHANGED sourcesIndex
        ELSE IF UpdatesIndexOnly(successful, canModifyFiles)
        THEN /\ sourcesIndex' = allSources
             /\ log' = log \o <<<<0, "listSources">>,
                                <<0, "updatePackageIndex">>>>
             /\ pc' = "done"
             /\ UNCHANGED agentsMd
        ELSE /\ pc' = "done"
             /\ UNCHANGED <<agentsMd, sourcesIndex, log>>
  /\ UNCHANGED <<runs, packages, cliOverride, canModifyFiles, results, i, cur,
                 resolved, settings, gitignore, tsconfig, store, installed,
                 atStart, attempts, prompts, lastFetched>>
  /\ UNCHANGED history

Next ==
  \/ \E batch \in Batches, override \in Permissions \cup {"unset"} :
       StartRun(batch, override)
  \/ \E answer \in Permissions : CheckPermission(answer)
  \/ EnsureProjectFiles
  \/ BeginPackage
  \/ CheckStore
  \/ \E outcome \in {"ok", "throw"} : Resolve(outcome)
  \/ \E outcome \in FetchOutcomes : Fetch(outcome)
  \/ Finish

Spec == Init /\ [][Next]_vars

\* ------------------------------------------------- calls on AGENTS.md
\* updateAgentsMd and removeOpensrcSection are exported and are also called
\* on their own, in any order, on whatever AGENTS.md the project has.
MaxCalls == 3

Entry(name, version) ==
  [name |-> name, version |-> version, path |-> StoreDir(name)]

\* The lists handed to updateAgentsMd: none, one package, two packages.
PackageLists ==
  {<<>>, <<Entry("a", "1")>>, <<Entry("a", "2"), Entry("b", "1")>>}

\* An AGENTS.md that already has a section, between the user's own text.
SectionFile ==
  File(<<"# Notes", NL>> \o generateSection(<<Entry("b", "1")>>)
       \o <<NL, "## Later", NL>>)

\* An AGENTS.md where the user kept the start marker only.
MarkerOnlyFile == File(<<"# Notes", NL, SECTION_MARKER, NL>>)

AgentsFiles == {Absent, UserFile, Directory, SectionFile, MarkerOnlyFile}

InitAgents ==
  /\ pc = "idle"
  /\ runs = 0
  /\ packages = <<>>
  /\ cliOverride = "unset"
  /\ canModifyFiles = FALSE
  /\ results = <<>>
  /\ i = 1
  /\ cur = NoCur
  /\ resolved = NoResolved
  /\ settings = "unset"
  /\ gitignore = FALSE
  /\ tsconfig = FALSE
  /\ agentsMd \in AgentsFiles
  /\ store = EmptyStore
  /\ installed = NothingInstalled
  /\ sourcesIndex = <<>>
  /\ log = <<>>
  /\ atStart = [settings |-> settings, gitignore |-> gitignore,
                tsconfig |-> tsconfig, agentsMd |-> agentsMd]
  /\ attempts = <<>>
  /\ prompts = 0
  /\ lastFetched = [n \in Names |-> NoFetch]
  /\ history = <<>>

CallRecord(op, pkgs, before, out) ==
  [op |-> op, packages |-> pkgs, before |-> before, after |-> out.file,
   ret |-> out.ret, threw |-> out.threw]

CallUpdateAgentsMd(pkgs) ==
  /\ Len(history) < MaxCalls
  /\ LET out == updateAgentsMd(pkgs, agentsMd)
     IN /\ agentsMd' = out.file
        /\ history' = Append(history,
                             CallRecord("updateAgentsMd", pkgs, agentsMd, out))
  /\ UNCHANGED <<pc, runs, packages, cliOverride, canModifyFiles, results, i,
                 cur, resolved, settings, gitignore, tsconfig, sourcesIndex,
                 store, installed, log, atStart, attempts, prompts,
                 lastFetched>>

CallRemoveOpensrcSection ==
  /\ Len(history) < MaxCalls
  /\ LET out == removeOpensrcSection(agentsMd)
     IN /\ agentsMd' = out.file
        /\ history' = Append(history,
                             CallRecord("removeOpensrcSection", <<>>,
                                        agentsMd, out))
  /\ UNCHANGED <<pc, runs, packages, cliOverride, canModifyFiles, results, i,
                 cur, resolved, settings, gitignore, tsconfig, sourcesIndex,
                 store, installed, log, atStart, attempts, prompts,
                 lastFetched>>

NextAgents ==
  \/ \E pkgs \in PackageLists : CallUpdateAgentsMd(pkgs)
  \/ CallRemoveOpensrcSection

SpecAgents == InitAgents /\ [][NextAgents]_vars

\* ------------------------------------------------------------- properties
Called(k, call) == \E p \in 1..Len(log) : log[p] = <<k, call>>
SpecName(k) == parsePackageSpec(packages[k]).name
Failures == {"resolve-throw", "fetch-fail", "fetch-throw"}
Listed == Called(0, "listSources")
Decided == pc \notin {"idle", "perm"}

\* C1: when fetchCommand returns, the result list has exactly one entry per
\* requested spec, and entry k is the result for the package that spec k
\* names: the input order is preserved, whatever each package's outcome was.
C1_OneResultPerSpecInOrder ==
  pc = "done" =>
    /\ Len(results) = Len(packages)
    /\ \A k \in 1..Len(results) : results[k].package = SpecName(k)

\* C1 is exercised by a returned batch of two different packages of which
\* the first failed and the second succeeded.
C1_Witness ==
  /\ pc = "done"
  /\ Len(packages) = 2
  /\ Len(results) = 2
  /\ SpecName(1) # SpecName(2)
  /\ ~results[1].success
  /\ results[2].success

\* C2: no exception escapes the batch boundary: fetchCommand never rejects,
\* whichever collaborator fails.
C2_NoExceptionEscapes == pc # "thrown"

\* C3: a package's failure never prevents the others from being attempted:
\* success:false is at exactly the indices of the packages that failed, every
\* other index holds that package's own outcome, and when the command ends
\* every spec of the batch has been begun and has ended.
C3_FailureDoesNotStopBatch ==
  /\ Len(results) <= Len(attempts)
  /\ \A k \in 1..Len(results) :
       /\ results[k].success = (attempts[k].outcome \notin Failures)
       /\ attempts[k].outcome \in {"fetch-ok", "fetch-fallback", "fetch-fail"}
            => results[k] = attempts[k].fetched
       /\ attempts[k].outcome = "uptodate"
            => results[k].version = attempts[k].target
  /\ pc \in {"done", "thrown"} =>
       \A k \in 1..Len(packages) :
         /\ Called(k, "begin")
         /\ k <= Len(attempts)
         /\ attempts[k].outcome # "pending"

\* C3 is exercised when the first package of a batch of two failed and the
\* second was fetched.
C3_Witness ==
  /\ pc = "done"
  /\ Len(packages) = 2
  /\ Len(attempts) = 2
  /\ attempts[1].outcome \in Failures
  /\ attempts[2].outcome = "fetch-ok"
  /\ results[2].success

\* C4: a request for the version that the last successful fetch of the
\* package stored succeeds without resolvePackage or fetchSource being
\* called, and reports the path that fetch reported.
C4_Idempotent ==
  \A k \in 1..Len(attempts) :
    (attempts[k].target # None /\ attempts[k].prior.version = attempts[k].target)
      => /\ ~Called(k, "resolvePackage")
         /\ ~Called(k, "fetchSource")
         /\ attempts[k].outcome \in {"pending", "uptodate"}
         /\ k <= Len(results) =>
              /\ results[k].success
              /\ results[k].path = attempts[k].prior.path

\* C4 is exercised by a second call whose first spec asks for what an
\* earlier call fetched.
C4_Witness ==
  /\ runs = 2
  /\ Len(results) >= 1
  /\ attempts[1].target # None
  /\ attempts[1].prior.version = attempts[1].target
  /\ results[1].success

\* C5: the packages of a batch are processed one after the other: every call
\* made for a spec is made for the spec right after the results recorded so
\* far, so no step of package k+1 precedes the result of package k and no
\* step of package k follows it.
C5_Sequential ==
  [][\A p \in (Len(log) + 1)..Len(log') :
       log'[p][1] >= 1 =>
         /\ log'[p][1] = Len(results) + 1
         /\ Len(results') \in {Len(results), Len(results) + 1}
         /\ SubSeq(results', 1, Len(results)) = results]_vars

\* C5 is exercised when the second package is being fetched after the first
\* one's result was recorded.
C5_Witness ==
  /\ pc = "fetch"
  /\ i = 2
  /\ Len(results) = 1
  /\ Called(1, "fetchSource")
  /\ Called(2, "resolvePackage")

\* C6 as claimed: after every batch that completes, the store is listed and
\* the listing handed to the documentation or index updater.
C6_IndexAfterEveryBatch ==
  pc = "done" =>
    /\ Listed
    /\ Called(0, "updateAgentsMd") \/ Called(0, "updatePackageIndex")

\* C6 as amended: after a batch completes the store has been listed and the
\* listing handed over exactly when at least one package succeeded: to
\* updateAgentsMd when files may be modified, else to updatePackageIndex.
\* The listing comes after the last package's result, and what is handed
\* over is the listing of the store.
C6_IndexAfterSuccessfulBatch ==
  /\ pc = "done" => (Listed <=> Successful(results) > 0)
  /\ Listed =>
       /\ pc \in {"done", "thrown"}
       /\ Len(results) = Len(packages)
       /\ Len(log) >= 2
       /\ log[Len(log) - 1] = <<0, "listSources">>
       /\ log[Len(log)] =
            <<0, IF canModifyFiles THEN "updateAgentsMd" ELSE "updatePackageIndex">>
  /\ (pc = "done" /\ Listed /\ ~canModifyFiles) => sourcesIndex = listSources(store)
  /\ (pc = "done" /\ Listed /\ canModifyFiles) =>
       \A k \in 1..Len(listSources(store)) :
         Includes(agentsMd.content, PackageLine(listSources(store)[k]))

\* C6 is exercised by a completed batch with a failure and a success under
\* deny, whose listing went to updatePackageIndex.
C6_Witness ==
  /\ pc = "done"
  /\ Len(results) = 2
  /\ Successful(results) = 1
  /\ Failed(results) = 1
  /\ Listed
  /\ ~canModifyFiles

\* C7: while the permission of the run is deny, ensureGitignore,
\* ensureTsconfigExclude and updateAgentsMd have not been called and
\* .gitignore, tsconfig.json and AGENTS.md are as they were when the run
\* started.
C7_DenyLeavesFilesAlone ==
  ~canModifyFiles =>
    /\ ~Called(0, "ensureGitignore")
    /\ ~Called(0, "ensureTsconfigExclude")
    /\ ~Called(0, "updateAgentsMd")
    /\ gitignore = atStart.gitignore
    /\ tsconfig = atStart.tsconfig
    /\ agentsMd = atStart.agentsMd

\* C7 is exercised by a completed run under deny in which a package was
\* fetched, in a project whose files were never patched.
C7_Witness ==
  /\ pc = "done"
  /\ Decided
  /\ ~canModifyFiles
  /\ Successful(results) > 0
  /\ ~gitignore
  /\ Called(0, "updatePackageIndex")

\* C8: the permission is the CLI override when there is one, whatever is
\* stored; else the stored preference, without a prompt; the user is asked
\* exactly when there is neither.
C8_PermissionPriority ==
  Decided =>
    /\ cliOverride # "unset" => canModifyFiles = (cliOverride = "allow")
    /\ (cliOverride = "unset" /\ atStart.settings # "unset")
         => canModifyFiles = (atStart.settings = "allow")
    /\ Called(0, "confirm")
         <=> (cliOverride = "unset" /\ atStart.settings = "unset")

\* C8 is exercised by a run whose override contradicts the stored preference.
C8_Witness ==
  /\ Decided
  /\ cliOverride = "deny"
  /\ atStart.settings = "allow"
  /\ ~canModifyFiles

\* C9: the path of a successful result is the store directory of the package
\* followed by its repoDirectory, on the fresh fetch and on the up-to-date
\* route alike; for the monorepo package b it ends with foo, for a it is the
\* store directory.  The stored metadata holds the same repoDirectory.
C9_MonorepoPath ==
  /\ \A k \in 1..Len(results) :
       results[k].success =>
         LET n == SpecName(k)
             dir == RegistryDirectory(n)
             path == results[k].path
         IN /\ path = StoreDir(n) \o dir
            /\ dir # NoDir => path[Len(path)] = dir[Len(dir)]
            /\ dir = NoDir => path = StoreDir(n)
  /\ \A n \in Names :
       store[n].meta => store[n].repoDirectory = RegistryDirectory(n)

\* C9 is exercised by the monorepo package fetched and then requested again.
C9_Witness ==
  /\ Len(results) = 2
  /\ SpecName(1) = "b"
  /\ SpecName(2) = "b"
  /\ attempts[1].outcome = "fetch-ok"
  /\ attempts[2].outcome = "uptodate"
  /\ results[2].path = <<"proj", "opensrc", "b", "packages", "foo">>

\* C10: a fetch that fell back to the default branch has success:true and a
\* non-empty error; the result list holds it as fetchSource returned it, and
\* the summary counts it with the successes.
C10_FallbackIsSuccess ==
  /\ Len(results) <= Len(attempts)
  /\ \A k \in 1..Len(results) :
       attempts[k].outcome = "fetch-fallback" =>
         /\ results[k] = attempts[k].fetched
         /\ results[k].success
         /\ results[k].error # ""
  /\ Successful(results) =
       Cardinality({k \in 1..Len(results) : attempts[k].outcome \notin Failures})
  /\ Failed(results) =
       Cardinality({k \in 1..Len(results) : attempts[k].outcome \in Failures})

\* C10 is exercised by a completed batch whose only package fell back.
C10_Witness ==
  /\ pc = "done"
  /\ Len(results) = 1
  /\ attempts[1].outcome = "fetch-fallback"
  /\ results[1].error = FetchWarning
  /\ Successful(results) = 1
  /\ Failed(results) = 0
  /\ Listed

\* C11: a request for another version than the stored one is never answered
\* from the store but resolved; and when its fetch succeeds the store holds
\* the new version's tree and metadata only, for that package.
C11_VersionChange ==
  /\ \A k \in 1..Len(attempts) :
       (/\ attempts[k].prior.version # None
        /\ attempts[k].target # None
        /\ attempts[k].prior.version # attempts[k].target)
         => /\ attempts[k].outcome # "uptodate"
            /\ attempts[k].outcome # "pending" => Called(k, "resolvePackage")
  /\ \A n \in Names : store[n].meta => store[n].tree = store[n].version
  /\ (/\ Len(attempts) >= 1
      /\ Len(results) = Len(attempts)
      /\ attempts[Len(attempts)].outcome \in {"fetch-ok", "fetch-fallback"})
       => LET k == Len(attempts)
              entry == store[SpecName(k)]
          IN /\ entry.meta
             /\ entry.version = results[k].version
             /\ entry.tree = results[k].version
             /\ attempts[k].target # None => entry.version = attempts[k].target

\* C11 is exercised by a@1 and then a@2, both fetched.
C11_Witness ==
  /\ pc = "loop"
  /\ packages = <<(<<"a", "@", "1">>), (<<"a", "@", "2">>)>>
  /\ Len(results) = 2
  /\ attempts[1].outcome = "fetch-ok"
  /\ attempts[2].outcome = "fetch-ok"
  /\ attempts[2].prior.version = "1"
  /\ store["a"].version = "2"
  /\ store["a"].tree = "2"

\* C12: a step that records a failed result leaves the store as it was, and
\* the metadata of a package, when present, is always that of the last fetch
\* of the package that succeeded, with the tree of that version.
C12_FailedFetchKeepsStore ==
  [][/\ (/\ Len(results') = Len(results) + 1
         /\ ~results'[Len(results')].success) => store' = store
     /\ \A n \in Names :
          store'[n].meta =>
            /\ store'[n].version = lastFetched'[n].version
            /\ store'[n].tree = lastFetched'[n].version]_vars

\* C12 is exercised when a@1 was fetched and the fetch of a@2 then failed.
C12_Witness ==
  /\ Len(results) = 2
  /\ SpecName(1) = "a"
  /\ SpecName(2) = "a"
  /\ attempts[1].outcome = "fetch-ok"
  /\ attempts[2].outcome \in {"fetch-fail", "fetch-throw"}
  /\ attempts[2].target = "2"
  /\ ~results[2].success
  /\ store["a"].meta
  /\ store["a"].version = "1"

\* C13: the target version is the explicit one, and then the installed
\* version is not looked up; without an explicit version it is the installed
\* one if there is one and else none; the resolver is given that target, and
\* with none it resolves the latest version.
C13_TargetVersionPriority ==
  /\ \A k \in 1..Len(attempts) :
       LET spec == parsePackageSpec(packages[k])
       IN /\ spec.version # None =>
               /\ attempts[k].target = spec.version
               /\ ~Called(k, "detectInstalledVersion")
          /\ spec.version = None =>
               /\ Called(k, "detectInstalledVersion")
               /\ attempts[k].target = installed[spec.name]
  /\ pc \in {"store", "resolve", "fetch"} =>
       /\ i = Len(attempts)
       /\ cur = [name |-> SpecName(i), version |-> attempts[i].target]
  /\ pc = "fetch" =>
       resolved.version =
         IF attempts[i].target = None THEN LatestVersion(SpecName(i))
         ELSE attempts[i].target

\* C13 is exercised where a is installed at 1: the bare spec takes 1, and
\* the spec a@2 takes 2 without a look at what is installed.
C13_Witness ==
  /\ packages = <<(<<"a">>), (<<"a", "@", "2">>)>>
  /\ installed["a"] = "1"
  /\ Len(attempts) = 2
  /\ attempts[1].target = "1"
  /\ attempts[2].target = "2"
  /\ pc = "fetch"
  /\ resolved.version = "2"

\* C14: a package whose store directory is there without readable metadata
\* is not answered from the store and no failure is recorded for that: it
\* is resolved, and it fails only if the resolver or the fetch fails.
C14_MissingMetadataIsAbsent ==
  \A k \in 1..Len(attempts) :
    attempts[k].dirOnly =>
      /\ Called(k, "packageExists")
           => (pc = "store" /\ i = k) \/ Called(k, "readMetadata")
      /\ attempts[k].outcome # "uptodate"
      /\ attempts[k].outcome # "pending" => Called(k, "resolvePackage")
      /\ attempts[k].outcome \in Failures =>
           \/ attempts[k].outcome = "resolve-throw"
           \/ Called(k, "fetchSource")
      /\ (k <= Len(results) /\ attempts[k].outcome \notin Failures)
           => results[k].success

\* C14 is exercised by the bare spec a, nothing installed, while the store
\* has a directory of a without metadata, fetched successfully.
C14_Witness ==
  /\ Len(results) = 1
  /\ packages[1] = <<"a">>
  /\ attempts[1].dirOnly
  /\ attempts[1].target = None
  /\ attempts[1].outcome = "fetch-ok"
  /\ results[1].success

\* C15 as claimed: only a request with a target version equal to the stored
\* one is answered from the store, and every request without a target version
\* calls the resolver and the fetcher.
C15_LatestCallsResolverAndFetcher ==
  \A k \in 1..Len(attempts) :
    /\ (k <= Len(results) /\ attempts[k].outcome = "uptodate") =>
         /\ attempts[k].target # None
         /\ attempts[k].target = results[k].version
    /\ (attempts[k].target = None /\ attempts[k].outcome # "pending") =>
         /\ Called(k, "resolvePackage")
         /\ Called(k, "fetchSource")

\* C15 as amended: only a request with a target version equal to the stored
\* one is answered from the store; a request without a target version is
\* never answered from the store: it calls the resolver, and the fetcher
\* unless the resolver threw.
C15_LatestNeverShortCircuits ==
  \A k \in 1..Len(attempts) :
    /\ (k <= Len(results) /\ attempts[k].outcome = "uptodate") =>
         /\ attempts[k].target # None
         /\ attempts[k].target = results[k].version
         /\ attempts[k].target = attempts[k].prior.version
    /\ (attempts[k].target = None /\ attempts[k].outcome # "pending") =>
         /\ attempts[k].outcome # "uptodate"
         /\ Called(k, "resolvePackage")
         /\ attempts[k].outcome # "resolve-throw" => Called(k, "fetchSource")
         /\ attempts[k].outcome = "resolve-throw" => ~Called(k, "fetchSource")

\* C15 is exercised by the bare spec a, nothing installed, fetched again
\* while the store holds the latest version of a.
C15_Witness ==
  /\ Len(results) >= 1
  /\ attempts[Len(results)].target = None
  /\ attempts[Len(results)].prior.version = "2"
  /\ attempts[Len(results)].outcome = "fetch-ok"
  /\ results[Len(results)].version = "2"

\* C16: once the permission of a run is decided the stored preference is
\* defined and is the permission; the user is asked at most once over all
\* runs; the next run starts from the preference the run before it left,
\* which is that run's override if it had one, and without an override of
\* its own it takes that preference without asking.
C16_PreferencePersists ==
  [][/\ Decided' =>
          /\ settings' # "unset"
          /\ canModifyFiles' = (settings' = "allow")
     /\ prompts' <= 1
     /\ (pc \in {"done", "thrown"} /\ pc' = "perm") =>
          /\ atStart'.settings = (IF canModifyFiles THEN "allow" ELSE "deny")
          /\ cliOverride # "unset" => atStart'.settings = cliOverride
     /\ (pc = "perm" /\ pc' = "ensure" /\ cliOverride = "unset"
         /\ atStart.settings # "unset") =>
          /\ canModifyFiles' = (atStart.settings = "allow")
          /\ prompts' = prompts]_vars

\* C16 is exercised by a second run without an override after a run with the
\* override deny: it is denied and nobody was asked.
C16_Witness ==
  /\ runs = 2
  /\ Decided
  /\ cliOverride = "unset"
  /\ atStart.settings = "deny"
  /\ ~canModifyFiles
  /\ prompts = 0

\* ------------------------------------------------- properties of AGENTS.md
\* Number of times a token occurs in the content.
Occurrences(content, tok) ==
  Cardinality({k \in 1..Len(content) : content[k] = tok})

\* The package lines any section of the model can hold.
AllPackageLines ==
  {PackageLine(Entry(n, v)) : n \in Names, v \in {"1", "2"}}

\* Every token only a section has.
SectionTokens ==
  {SECTION_START, SECTION_MARKER, SECTION_END_MARKER, SECTION_INTRO,
   SECTION_USAGE} \cup AllPackageLines

\* The package lines of the content, in order.
ListedLines(content) == SelectSeq(content, LAMBDA t : t \in AllPackageLines)

\* The user's own lines of the content, in order.
UserText(content) ==
  SelectSeq(content, LAMBDA t : t \notin SectionTokens /\ t # NL)

\* The file AGENTS.md was before the first call.
Origin == IF history = <<>> THEN agentsMd ELSE history[1].before

\* Absent, or a file with none of the heading and markers.
Clean(file) ==
  \/ file.kind = "absent"
  \/ /\ file.kind = "file"
     /\ ~Includes(file.content, SECTION_START)
     /\ ~Includes(file.content, SECTION_MARKER)
     /\ ~Includes(file.content, SECTION_END_MARKER)

NonEmptyUpdates ==
  {k \in 1..Len(history) :
     history[k].op = "updateAgentsMd" /\ history[k].packages # <<>>}

\* The list of the most recent update that had packages.
LastNonEmptyUpdate ==
  history[CHOOSE k \in NonEmptyUpdates : \A j \in NonEmptyUpdates : j <= k].packages

\* C17: two updateAgentsMd calls in a row with the same non-empty list: the
\* second leaves AGENTS.md as the first left it, whatever AGENTS.md was
\* before.
C17_UpdateTwiceIsIdempotent ==
  \A k \in 1..(Len(history) - 1) :
    (/\ history[k].op = "updateAgentsMd"
     /\ history[k + 1].op = "updateAgentsMd"
     /\ history[k].packages # <<>>
     /\ history[k + 1].packages = history[k].packages)
    => history[k + 1].after = history[k].after

\* C18: from an AGENTS.md that is absent or has no heading and no marker,
\* after any calls of updateAgentsMd and removeOpensrcSection the file has at
\* most one heading, start marker and end marker, in that order, and the
\* package lines in it are those of the most recent update that had
\* packages, in the order given; without a section it has no package line.
C18_OneSectionWithLatestPackages ==
  (Clean(Origin) /\ agentsMd.kind = "file") =>
    LET content == agentsMd.content
    IN /\ Occurrences(content, SECTION_START) <= 1
       /\ Occurrences(content, SECTION_MARKER) <= 1
       /\ Occurrences(content, SECTION_END_MARKER) <= 1
       /\ Includes(content, SECTION_MARKER) =
            Includes(content, SECTION_END_MARKER)
       /\ Includes(content, SECTION_MARKER) =
            Includes(content, SECTION_START)
       /\ Includes(content, SECTION_MARKER) =>
            /\ IndexOf(content, SECTION_START)
                 < IndexOf(content, SECTION_MARKER)
            /\ IndexOf(content, SECTION_MARKER)
                 < IndexOf(content, SECTION_END_MARKER)
            /\ NonEmptyUpdates # {}
            /\ ListedLines(content) = PackageLines(LastNonEmptyUpdate)
       /\ ~Includes(content, SECTION_MARKER) => ListedLines(content) = <<>>

\* C18 is exercised by an update, a removal and an update with another list
\* on the user's file: the section lists the second list.
C18_Witness ==
  /\ Len(history) = 3
  /\ Origin = UserFile
  /\ history[1].op = "updateAgentsMd" /\ history[1].packages # <<>>
  /\ history[2].op = "removeOpensrcSection" /\ history[2].ret
  /\ history[3].op = "updateAgentsMd"
  /\ Len(history[3].packages) = 2
  /\ history[3].packages # history[1].packages
  /\ agentsMd.kind = "file"
  /\ Includes(agentsMd.content, SECTION_MARKER)

\* The section of the content: from the first heading to the first end
\* marker, with a start marker between them.
HasWholeSection(content) ==
  LET h == IndexOf(content, SECTION_START)
      e == IndexOf(content, SECTION_END_MARKER)
  IN /\ h # 0
     /\ h < e
     /\ \E m \in (h + 1)..(e - 1) : content[m] = SECTION_MARKER

\* The content without its section.
WithoutSection(content) ==
  SubSeq(content, 1, IndexOf(content, SECTION_START) - 1)
    \o SubSeq(content, IndexOf(content, SECTION_END_MARKER) + 1, Len(content))

\* The lines of the content that are not empty, in order.
NonBlank(content) == SelectSeq(content, LAMBDA t : t # NL)

\* C19: updateAgentsMd with the empty list returns without throwing; it
\* never makes AGENTS.md exist and never adds a marker; on a file with a
\* section it returns true, the section is gone afterwards and every other
\* line is kept, and the value returned and the file are those of
\* removeOpensrcSection; on anything else it returns false and AGENTS.md is
\* as before.
C19_EmptyListOnlyRemoves ==
  \A k \in 1..Len(history) :
    (history[k].op = "updateAgentsMd" /\ history[k].packages = <<>>) =>
      LET before == history[k].before
          after == history[k].after
      IN /\ ~history[k].threw
         /\ after.kind = before.kind
         /\ before.kind = "file" =>
              Occurrences(after.content, SECTION_MARKER)
                <= Occurrences(before.content, SECTION_MARKER)
         /\ IF before.kind = "file" /\ HasWholeSection(before.content)
            THEN /\ history[k].ret
                 /\ NonBlank(after.content)
                      = NonBlank(WithoutSection(before.content))
                 /\ UserText(after.content) = UserText(before.content)
                 /\ Outcome(after, history[k].ret, history[k].threw)
                      = removeOpensrcSection(before)
            ELSE /\ ~history[k].ret
                 /\ after = before

\* C19 is exercised by the empty list on a file whose section an update
\* added, and once more on the file that is left without a section.
C19_Witness ==
  /\ Len(history) = 3
  /\ Origin = UserFile
  /\ history[1].op = "updateAgentsMd" /\ history[1].packages # <<>>
  /\ history[2].op = "updateAgentsMd" /\ history[2].packages = <<>>
  /\ history[2].ret
  /\ history[3].op = "updateAgentsMd" /\ history[3].packages = <<>>
  /\ ~history[3].ret
  /\ ~Includes(agentsMd.content, SECTION_MARKER)

=============================================================================
